---- MODULE Spec2Model ----
(***************************************************************************)
(* Model of the door monitor cog, src/real_bot/cogs/monitor.py.            *)
(*                                                                         *)
(* The cog runs on one asyncio event loop: a handler runs atomically from  *)
(* one await that really suspends to the next.  The awaits that suspend    *)
(* are Message.edit (line 103) and channel.send (line 136); requests.get   *)
(* (line 90) blocks the whole loop and create_status_embed never suspends. *)
(* The poller is a discord.ext.tasks.Loop (lines 48-56) driven by          *)
(* start() (line 164) and stop() (line 173).  What a command answers       *)
(* (ctx.send, or the exception it raises) is a function of the state the   *)
(* command finds, given by the ...Reply operators.                         *)
(* The failure answer of link_channel (line 126) is kept as a frame while  *)
(* it is sent, and the embed get_page returns is kept in view.  The pager  *)
(* (lines 176-217) is checked on its own, under PagerSpec.                 *)
(***************************************************************************)
EXTENDS Integers, Sequences, FiniteSets, TLC

\* ---------------------------------------------------------------- bounds
MaxCap == 2      \* max_history_len is drawn from 0..MaxCap
MaxAppends == 3  \* at most MaxAppends records are ever appended
MaxMsgs == 2     \* channel.send creates at most MaxMsgs messages
MaxLen == 5      \* the pager is checked for histories of up to MaxLen records,
MaxPerPage == 3  \* page sizes from 1 to MaxPerPage
MaxPage == 5     \* and page numbers from -MaxPage to MaxPage
\* line 23: the page size the constructor takes by default.
DefaultNumPerPage == 10

Guilds == {1, 2}
Channels == {"a", "b"}
\* A channel argument the converter left as a str: no such channel.
Names == {"nosuch"}

\* ------------------------------------------------------- python values
\* The values door_open takes when the body parses: JSON true, false, null
\* and a string.
JsonValues == {"True", "False", "None", "yes"}
\* What the try block of lines 89-94 can end with: a parsed value, or an
\* exception (network error, timeout, not JSON, missing field).
FetchResults == JsonValues \cup {"exception"}

\* lines 89-94: door_open after the try/except.
DoorOpen(fetch) == IF fetch = "exception" THEN "False" ELSE fetch

\* Python truth of a value: False and None are falsy, a non-empty string
\* (also "Open" and "Closed") is truthy (line 72, `if door_open:`).
Truthy(v) == v \notin {"False", "None"}

\* line 96: m = {False: "Closed", True: "Open"}; a lookup of any other key
\* raises KeyError.
InM(v) == v \in {"True", "False"}
M(v) == IF v = "True" THEN "Open" ELSE "Closed"

\* lines 72-77: the state the embed announces.
create_status_embed(door_open) == IF Truthy(door_open) THEN "Open" ELSE "Closed"

\* ------------------------------------------------------------ messages
NoMsg == [id |-> 0, chan |-> "none", shows |-> "none"]
NoGuild == 0

\* line 103: Message.edit returns the message with the new embed.
Edit(msg, embed) == [msg EXCEPT !.shows = embed]

\* An edit whose result is dropped.
StoreEdited_Dropped(msgs, g, msg) == msgs

\* line 103: self.messages[guild] = <the edited message>.
StoreEdited(msgs, g, msg) == [msgs EXCEPT ![g] = msg]

\* ------------------------------------------------------------- history
Last(s) == s[Len(s)]

\* A trim that drops the newest record instead of the oldest.
AppendRecord_DropNewest(h, rec, cap) ==
    LET a == Append(h, rec)
    IN IF Len(a) > cap THEN SubSeq(a, 1, Len(a) - 1) ELSE a

\* lines 105-107: append, then drop the oldest record when over the cap.
AppendRecord(h, rec, cap) ==
    LET a == Append(h, rec)
    IN IF Len(a) > cap THEN Tail(a) ELSE a

\* A tick that never debounces.
Debounced_Never(h, door_open) == FALSE

\* A debounce that compares with the oldest record.
Debounced_First(h, door_open) == Len(h) > 0 /\ M(door_open) = h[1][2]

\* line 97: the status is the same as the last record's.
Debounced(h, door_open) == Len(h) > 0 /\ M(door_open) = Last(h)[2]

VARIABLES
    max_history_len,  \* self.max_history_len (line 43)
    history,          \* self.history (line 45): sequence of <<timestamp, state>>
    messages,         \* self.messages (line 39): guild id -> message or NoMsg
    keys,             \* insertion order of self.messages' keys (dict order)
    nextId,           \* id of the next message channel.send creates
    loop,             \* the tasks.Loop task: "off", "new", "sleep", "edit"
    stop_next,        \* tasks.Loop._stop_next_iteration
    tick,             \* the suspended send_announcement frame
    lnk,              \* the suspended link_channel frame
    appended,         \* every record appended so far (line 105), in order
    cur,              \* summary of the current or last run of send_announcement
    num_per_page,     \* self.num_per_page (line 42)
    view,             \* the embed get_page returned last
    walk              \* the pages read in order from page 0, joined

pager == <<num_per_page, view, walk>>

vars == <<max_history_len, history, messages, keys, nextId, loop, stop_next,
          tick, lnk, appended, cur, num_per_page, view, walk>>

\* line 105: int(datetime.now().timestamp()), as a logical clock: it has
\* advanced by one at each record appended.
Now == Len(appended)

IdleTick == [door_open |-> "None", it |-> 0, di_used |-> 0, guild |-> NoGuild,
             msg |-> NoMsg]
IdleLink == [pc |-> "idle", guild |-> NoGuild, chan |-> "none", embed |-> "none"]
\* A run's summary: what the fetch gave, the state observed (m[door_open]),
\* whether it passed the debounce, the message each edit returned, for each
\* guild a link command stored a message for while the run was suspended the
\* pair of the guild and the id of the last message so stored, whether
\* it appended a record, how it ended and the guild whose edit raised.
NoRun == [fetch |-> "none", obs |-> "none", trans |-> FALSE,
          ret |-> [g \in Guilds |-> NoMsg], linked |-> {}, appended |-> FALSE,
          end |-> "none", failed |-> NoGuild]

NoView == [page |-> 0, lines |-> <<>>, footer |-> <<0, 0>>, err |-> "unset"]
NoWalk == [upto |-> 0 - 1, lines |-> <<>>]

Init ==
    /\ num_per_page = DefaultNumPerPage
    /\ view = NoView
    /\ walk = NoWalk
    /\ max_history_len \in 0..MaxCap
    /\ history = <<>>
    /\ messages = [g \in Guilds |-> NoMsg]
    /\ keys = <<>>
    /\ nextId = 1
    /\ loop = "off"
    /\ stop_next = FALSE
    /\ tick = IdleTick
    /\ lnk = IdleLink
    /\ appended = <<>>
    /\ cur = NoRun

\* ------------------------------------------------------ the tasks.Loop
\* tasks.Loop._loop after the coroutine ended with `end` (reconnect=True,
\* line 55): a normal return goes on to sleep unless stop() was called; an
\* OSError is one of the exceptions the Loop retries after a backoff; any
\* other exception ends the task.
Returned(end) == end \in {"ok", "debounced"}
Retried(end) == end = "OSError"

LoopAfter(end, stopping) ==
    IF Returned(end) THEN (IF stopping THEN "off" ELSE "sleep")
    ELSE IF Retried(end) THEN "sleep"
    ELSE "off"

\* _stop_next_iteration is reset when the task ends.
StopNextAfter(end, stopping) ==
    IF LoopAfter(end, stopping) = "off" THEN FALSE ELSE stopping

\* tasks.Loop._loop: the coroutine is called when the task is first
\* scheduled, unless stop() came first, and after each sleep.
LoopCalls(l, stopping) == l = "sleep" \/ (l = "new" /\ ~stopping)

\* send_announcement ends (returns or raises) with `end`.
End(run, end) ==
    /\ loop' = LoopAfter(end, stop_next)
    /\ stop_next' = StopNextAfter(end, stop_next)
    /\ tick' = IdleTick
    /\ cur' = [run EXCEPT !.end = end]

\* lines 101-107, resumed with `it` keys of the dict already visited and
\* the registry being `msgs`: the dict iterator raises RuntimeError when the
\* dict changed size, else the next guild's message is edited (the frame
\* suspends with the message it read), else the record is appended.
ForLoop(door_open, it, di_used, run, msgs) ==
    IF Len(keys) # di_used
    THEN /\ End(run, "RuntimeError")
         /\ UNCHANGED <<history, appended>>
    ELSE IF it < Len(keys)
    THEN /\ loop' = "edit"
         /\ tick' = [door_open |-> door_open, it |-> it, di_used |-> di_used,
                     guild |-> keys[it + 1], msg |-> msgs[keys[it + 1]]]
         /\ cur' = run
         /\ UNCHANGED <<stop_next, history, appended>>
    ELSE IF ~InM(door_open)
    THEN /\ End(run, "KeyError")
         /\ UNCHANGED <<history, appended>>
    ELSE /\ history' = AppendRecord(history, <<Now, M(door_open)>>, max_history_len)
         /\ appended' = Append(appended, <<Now, M(door_open)>>)
         /\ End([run EXCEPT !.appended = TRUE], "ok")

\* The Loop calls send_announcement (lines 88-101): the fetch, the debounce
\* and the start of the for loop, up to the first edit.
TickStart(fetch) ==
    /\ LoopCalls(loop, stop_next)
    /\ Len(appended) < MaxAppends
    /\ LET door_open == DoorOpen(fetch)
           run == [NoRun EXCEPT !.fetch = fetch, !.end = "running"]
       IN IF Len(history) > 0 /\ ~InM(door_open)
          THEN /\ End(run, "KeyError")
               /\ UNCHANGED <<history, appended>>
          ELSE IF Debounced(history, door_open)
          THEN /\ End([run EXCEPT !.obs = M(door_open)], "debounced")
               /\ UNCHANGED <<history, appended>>
          ELSE ForLoop(door_open, 0, Len(keys),
                       [run EXCEPT !.obs = IF InM(door_open) THEN M(door_open) ELSE "none",
                                   !.trans = TRUE],
                       messages)
    /\ UNCHANGED <<pager, max_history_len, messages, keys, nextId, lnk>>

\* line 103: the edit returns; the result is stored and the for loop goes on.
EditReturns ==
    /\ loop = "edit"
    /\ LET r == Edit(tick.msg, create_status_embed(tick.door_open))
           msgs == StoreEdited(messages, tick.guild, r)
       IN /\ messages' = msgs
          /\ ForLoop(tick.door_open, tick.it + 1, tick.di_used,
                     [cur EXCEPT !.ret[tick.guild] = r], msgs)
    /\ UNCHANGED <<pager, max_history_len, keys, nextId, lnk>>

\* line 103: the edit raises (HTTPException: the message was deleted, the
\* permission revoked; OSError: the connection failed).
EditFails(exc) ==
    /\ loop = "edit"
    /\ End([cur EXCEPT !.failed = tick.guild], exc)
    /\ UNCHANGED <<pager, max_history_len, history, messages, keys, nextId, lnk,
                   appended>>

\* tasks.Loop._loop: stop() was called before the first iteration.
LoopReturnsEarly ==
    /\ loop = "new"
    /\ stop_next
    /\ loop' = "off"
    /\ stop_next' = FALSE
    /\ UNCHANGED <<pager, max_history_len, history, messages, keys, nextId, tick,
                   lnk, appended, cur>>

\* ------------------------------------------------------------ commands
\* line 164: Loop.start() raises RuntimeError while its task is not done;
\* line 165 is reached only when it did not.
StartReply(l) ==
    IF l # "off" THEN "RuntimeError" ELSE "Started monitoring door status."

\* lines 164-165: start_monitor.
StartMonitor ==
    /\ loop' = IF StartReply(loop) = "RuntimeError" THEN loop ELSE "new"
    /\ UNCHANGED <<pager, max_history_len, history, messages, keys, nextId,
                   stop_next, tick, lnk, appended, cur>>

\* A stop_monitor that also empties the history.
StopMonitor_Clears ==
    /\ stop_next' = (IF loop # "off" THEN TRUE ELSE stop_next)
    /\ history' = <<>>
    /\ UNCHANGED <<pager, max_history_len, messages, keys, nextId, loop,
                   tick, lnk, appended, cur>>

\* lines 173-174: stop_monitor; Loop.stop() sets _stop_next_iteration while
\* its task is not done.
StopMonitor ==
    /\ stop_next' = (IF loop # "off" THEN TRUE ELSE stop_next)
    /\ UNCHANGED <<pager, max_history_len, history, messages, keys, nextId, loop,
                   tick, lnk, appended, cur>>

\* lines 130-133: the value link_channel passes to create_status_embed.
LinkVal(h) == IF Len(h) > 0 THEN Last(h)[2] ELSE "False"

\* lines 129-136: link_channel with a resolved channel, up to channel.send.
LinkBegin(g, c) ==
    /\ lnk.pc = "idle"
    /\ nextId <= MaxMsgs
    /\ lnk' = [pc |-> "send", guild |-> g, chan |-> c,
               embed |-> create_status_embed(LinkVal(history))]
    /\ UNCHANGED <<pager, max_history_len, history, messages, keys, nextId, loop,
                   stop_next, tick, appended, cur>>

\* line 136: the message channel.send returns.
Sent(l, id) == [id |-> id, chan |-> l.chan, shows |-> l.embed]

\* A store that keeps the message a guild is already linked to.
Store_KeepFirst(msgs, g, msg) ==
    IF msgs[g] = NoMsg THEN [msgs EXCEPT ![g] = msg] ELSE msgs

\* line 136: self.messages[ctx.guild.id] = <the sent message>.
Store(msgs, g, msg) == [msgs EXCEPT ![g] = msg]

\* lines 136-139: channel.send returns and the message is stored.
LinkSent ==
    /\ lnk.pc = "send"
    /\ messages' = Store(messages, lnk.guild, Sent(lnk, nextId))
    /\ keys' = IF messages[lnk.guild] = NoMsg THEN Append(keys, lnk.guild) ELSE keys
    /\ nextId' = nextId + 1
    /\ lnk' = IdleLink
    /\ cur' = IF loop = "edit"
              THEN [cur EXCEPT !.linked = {l \in @ : l[1] # lnk.guild}
                                          \cup {<<lnk.guild, nextId>>}]
              ELSE cur
    /\ UNCHANGED <<pager, max_history_len, history, loop, stop_next, tick,
                   appended>>

\* line 136: channel.send raises (no permission to send in the channel).
LinkSendFails ==
    /\ lnk.pc = "send"
    /\ lnk' = IdleLink
    /\ UNCHANGED <<pager, max_history_len, history, messages, keys, nextId, loop,
                   stop_next, tick, appended, cur>>

\* A link_channel that takes the name for a channel and sends to it.
LinkUnresolved_Sends(name) ==
    /\ lnk.pc = "idle"
    /\ nextId <= MaxMsgs
    /\ lnk' = [pc |-> "send", guild |-> 1, chan |-> name,
               embed |-> create_status_embed(LinkVal(history))]
    /\ UNCHANGED <<pager, max_history_len, history, messages, keys, nextId, loop,
                   stop_next, tick, appended, cur>>

\* lines 125-128: link_channel with a str, up to the ctx.send of the failure
\* message, which names the channel asked for. The branch never reads
\* ctx.guild.
LinkUnresolved(name) ==
    /\ lnk.pc = "idle"
    /\ lnk' = [pc |-> "sorry", guild |-> NoGuild, chan |-> name, embed |-> "none"]
    /\ UNCHANGED <<pager, max_history_len, history, messages, keys, nextId, loop,
                   stop_next, tick, appended, cur>>

\* lines 126-128: the failure message was sent; the command is over.
LinkReplied ==
    /\ lnk.pc = "sorry"
    /\ lnk' = IdleLink
    /\ UNCHANGED <<pager, max_history_len, history, messages, keys, nextId, loop,
                   stop_next, tick, appended, cur>>

\* lines 147-154: what test_link answers: the channel of the message stored
\* for the guild, or that the guild is not linked.
TestLinkReply(ks, msgs, g) ==
    IF \E i \in 1..Len(ks) : ks[i] = g
    THEN [text |-> "Correctly linked", chan |-> msgs[g].chan]
    ELSE [text |-> "Not linked", chan |-> "none"]

\* lines 141-154: test_link reads self.messages and answers.
TestLink(g) ==
    /\ TestLinkReply(keys, messages, g).text \in {"Correctly linked", "Not linked"}
    /\ UNCHANGED vars

\* ------------------------------------------------------------ the pager

\* line 46: self.emojis.
Emojis == [s \in {"Open", "Closed"} |-> IF s = "Open" THEN ":unlock:" ELSE ":lock:"]

\* A slice bound as Python normalises it for a list of length n: a negative
\* bound counts from the end, and the result is clipped to 0..n.
Norm(i, n) ==
    IF i < 0 THEN (IF i + n < 0 THEN 0 ELSE i + n)
             ELSE (IF i > n THEN n ELSE i)

\* line 190: self.history[start:end]; empty when the bounds cross.
PySlice(s, start, end) ==
    LET a == Norm(start, Len(s))
        b == Norm(end, Len(s))
    IN  IF a < b THEN SubSeq(s, a + 1, b) ELSE <<>>

\* A loop over the slice in the order it is stored.
Reversed_Keep(s) == s

\* line 190: reversed(...).
Reversed(s) == [i \in 1..Len(s) |-> s[Len(s) + 1 - i]]

\* A start without the "+ 1".
PageStart_NoPlusOne(page, n) == 0 - page * n

\* line 187: start = -(page + 1) * self.num_per_page.
PageStart(page, n) == 0 - (page + 1) * n

\* An end that is always len(self.history).
PageEnd_Len(page, n, len) == len

\* line 188: end = -page * self.num_per_page if page != 0 else len(self.history).
PageEnd(page, n, len) == IF page # 0 THEN 0 - page * n ELSE len

\* The number of full pages only.
get_total_pages_Floor(h, n) == Len(h) \div n

\* lines 196-202: get_total_pages.
get_total_pages(h, n) == Len(h) \div n + (IF Len(h) % n # 0 THEN 1 ELSE 0)

\* line 191: one line of the description: emoji, state, timestamp.
Line(rec) == <<Emojis[rec[2]], rec[2], rec[1]>>

\* lines 176-194: get_page: the lines of the description from top to bottom,
\* the footer "Showing page {page+1}/{total}", and the KeyError line 191
\* raises for a state self.emojis does not hold.
get_page(h, n, page) ==
    LET recs == Reversed(PySlice(h, PageStart(page, n), PageEnd(page, n, Len(h))))
        ok   == \A i \in 1..Len(recs) : recs[i][2] \in DOMAIN Emojis
    IN  [page   |-> page,
         lines  |-> IF ok THEN [i \in 1..Len(recs) |-> Line(recs[i])] ELSE <<>>,
         footer |-> <<page + 1, get_total_pages(h, n)>>,
         err    |-> IF ok THEN "none" ELSE "KeyError"]

\* lines 204-217: the history command: page 0 is sent.
GetHistory ==
    /\ view' = get_page(history, num_per_page, 0)
    /\ walk' = [upto |-> 0, lines |-> view'.lines]
    /\ UNCHANGED <<num_per_page, max_history_len, history, messages, keys,
                   nextId, loop, stop_next, tick, lnk, appended, cur>>

\* lines 176-194, 213-215: the page view asks for the page after the one
\* shown, while there is one.
NextPage ==
    /\ view # NoView
    /\ view.page >= 0
    /\ view.page + 1 < get_total_pages(history, num_per_page)
    /\ view' = get_page(history, num_per_page, view.page + 1)
    /\ walk' = IF walk.upto = view.page
               THEN [upto |-> view.page + 1, lines |-> walk.lines \o view'.lines]
               ELSE NoWalk
    /\ UNCHANGED <<num_per_page, max_history_len, history, messages, keys,
                   nextId, loop, stop_next, tick, lnk, appended, cur>>

\* lines 176-194: get_page called with any page number.
GetPage(page) ==
    /\ view' = get_page(history, num_per_page, page)
    /\ walk' = NoWalk
    /\ UNCHANGED <<num_per_page, max_history_len, history, messages, keys,
                   nextId, loop, stop_next, tick, lnk, appended, cur>>

\* A history of len records the monitor can hold: timestamps grow from t0
\* and the states alternate from first (lines 97-99, 105).
HistoryOf(len, first, t0) ==
    [i \in 1..len |->
        <<t0 + i - 1,
          IF i % 2 = 1 THEN first ELSE IF first = "Open" THEN "Closed" ELSE "Open">>]

Histories ==
    {HistoryOf(len, first, t0) :
        len \in 0..MaxLen, first \in {"Open", "Closed"}, t0 \in 0..1}

\* The pager on its own: a monitor that holds any such history, with any
\* page size of at least one.
PagerInit ==
    /\ num_per_page \in 1..MaxPerPage
    /\ view = NoView
    /\ walk = NoWalk
    /\ max_history_len = MaxLen
    /\ history \in Histories
    /\ messages = [g \in Guilds |-> NoMsg]
    /\ keys = <<>>
    /\ nextId = 1
    /\ loop = "off"
    /\ stop_next = FALSE
    /\ tick = IdleTick
    /\ lnk = IdleLink
    /\ appended = history
    /\ cur = NoRun

PagerNext ==
    \/ GetHistory
    \/ NextPage
    \/ \E page \in (0 - MaxPage)..MaxPage : GetPage(page)

PagerSpec == PagerInit /\ [][PagerNext]_vars

Next ==
    \/ \E fetch \in FetchResults : TickStart(fetch)
    \/ EditReturns
    \/ \E exc \in {"HTTPException", "OSError"} : EditFails(exc)
    \/ LoopReturnsEarly
    \/ StartMonitor
    \/ StopMonitor
    \/ \E g \in Guilds, c \in Channels : LinkBegin(g, c)
    \/ LinkSent
    \/ LinkSendFails
    \/ \E name \in Names : LinkUnresolved(name)
    \/ \E g \in Guilds : TestLink(g)
    \/ LinkReplied

Spec == Init /\ [][Next]_vars

\* The event loop is fair to the timer of the tasks.Loop and to the sends of
\* the link command.  No fairness is asked of Message.edit: the request may
\* never be answered.
FairSpec ==
    /\ Spec
    /\ WF_vars(\E fetch \in FetchResults : TickStart(fetch))
    /\ WF_vars(LinkSent)
    /\ WF_vars(LinkReplied)

\* ===================================================================
\* Properties
\* ===================================================================
Min(a, b) == IF a < b THEN a ELSE b
LastN(s, n) == SubSeq(s, Len(s) - n + 1, Len(s))
Range(s) == {s[i] : i \in 1..Len(s)}

\* The step on which send_announcement is entered.
Enters == \E fetch \in FetchResults : TickStart(fetch)
\* The step on which a run of send_announcement ends (returns or raises).
Ends == (Enters \/ loop = "edit") /\ cur'.end # "running"

\* C1: the history log is always the most recent min(k, max_history_len) of
\* the k records appended so far, in their insertion order, so it never
\* holds more than max_history_len records.
C1_HistoryIsMostRecent ==
    /\ history = LastN(appended, Min(Len(appended), max_history_len))
    /\ Len(history) <= max_history_len

\* C1: records were evicted from a log with room for at least one.
C1_Witness ==
    /\ max_history_len >= 1
    /\ Len(appended) > max_history_len
    /\ Len(history) = max_history_len
    /\ cur.end = "ok"

\* C2: a tick that observes the state of the most recent record of a
\* non-empty history changes nothing: no record is appended, no edit is
\* issued, and the registry keeps its keys and its messages.
C2_DebounceNoOp ==
    [][(Enters /\ Len(history) > 0 /\ cur'.obs = Last(history)[2])
       => /\ cur'.end = "debounced"
          /\ history' = history
          /\ appended' = appended
          /\ messages' = messages
          /\ keys' = keys
          /\ loop' # "edit"]_vars

\* C2: a tick was debounced while a destination was registered.
C2_Witness ==
    /\ cur.end = "debounced"
    /\ Len(history) > 0
    /\ keys # <<>>

\* C3: when a tick that passed the debounce and completed is followed by a
\* tick that observes the same state, the second tick is debounced: it
\* appends nothing and announces nothing.
C3_SecondCallDebounced ==
    [][(Enters /\ cur.trans /\ cur.end = "ok" /\ cur'.obs = cur.obs)
       => /\ cur'.end = "debounced"
          /\ appended' = appended
          /\ loop' # "edit"]_vars

\* The fetch failures of C4: an exception, or a door[0].open value that is
\* not a boolean.
FetchFailures == {"exception", "None", "yes"}

\* C4: a tick whose fetch failed does not raise on the value it got and
\* observes Closed.
C4_FetchFailureIsClosed ==
    (cur.fetch \in FetchFailures /\ cur.end # "running")
        => (cur.obs = "Closed" /\ cur.end # "KeyError")

C6_LinkShowsCurrentState ==
    [][/\ (lnk.pc = "idle" /\ lnk'.pc = "send")
            => lnk'.embed = (IF Len(history) > 0 THEN Last(history)[2] ELSE "Closed")
       /\ (lnk.pc = "send" /\ nextId' # nextId)
            => /\ messages'[lnk.guild] =
                     [id |-> nextId, chan |-> lnk.chan, shows |-> lnk.embed]
               /\ \A g \in Guilds \ {lnk.guild} : messages'[g] = messages[g]]_vars

\* C7: when an edit raises in a tick that announces to several registered
\* destinations, the other destinations are still edited in that tick and
\* the transition is still recorded.
C7_FailureIsolated ==
    [][(loop = "edit" /\ Len(keys) >= 2 /\ cur'.failed # NoGuild)
       => /\ \A g \in Range(keys) \ {cur'.failed} : cur'.ret[g] # NoMsg
          /\ cur'.appended]_vars

\* C8: a tick in which the fetch failed or an edit raised leaves the poller
\* running (unless stop() was called): the Loop will call the tick again.
C8_PollerSurvivesFailure ==
    [][(Ends /\ ~stop_next
          /\ (cur'.fetch = "exception" \/ cur'.end \in {"HTTPException", "OSError"}))
       => LoopCalls(loop', stop_next')]_vars

\* C9: start() while the poller is running is a safe no-op: it does not fail.
C9_StartIsIdempotent == loop # "off" => StartReply(loop) # "RuntimeError"

\* C10: no tick begins after stop() was called, until the next start().
C10_NoTickAfterStop == [][Enters => ~stop_next]_vars

\* C11: every step of a link_channel with an unresolved destination (a name)
\* changes neither the registry nor the history and sends no status message;
\* the command answers with the failure message naming the destination asked
\* for and then ends.
C11_UnresolvedLinkChangesNothing ==
    [][(lnk' # lnk /\ (lnk.chan \in Names \/ lnk'.chan \in Names))
       => /\ messages' = messages
          /\ keys' = keys
          /\ history' = history
          /\ nextId' = nextId
          /\ lnk.pc = "idle" => (lnk'.pc = "sorry" /\ lnk'.embed = "none")
          /\ lnk.pc # "idle" => (lnk.pc = "sorry" /\ lnk' = IdleLink)]_vars

\* C11: the failure message for the name asked for is being sent while a
\* destination is registered and the history holds a record.
C11_Witness ==
    /\ lnk.pc = "sorry"
    /\ lnk.chan = "nosuch"
    /\ keys # <<>>
    /\ Len(history) > 0

\* C12: on the step that completes a link of a guild to a channel, test_link
\* for that guild then answers "linked" with that channel, whatever the guild
\* was linked to before; for a guild no message was ever stored for it
\* answers "not linked".
C12_TestLinkAfterLink ==
    [][/\ (lnk.pc = "send" /\ nextId' # nextId)
          => TestLinkReply(keys', messages', lnk.guild)
                 = [text |-> "Correctly linked", chan |-> lnk.chan]
       /\ \A g \in Guilds :
            messages'[g] = NoMsg
                => TestLinkReply(keys', messages', g).text = "Not linked"]_vars

\* C12: a guild whose first message, in channel a, a tick has edited is now
\* linked to channel b, while the other guild was never linked.
C12_Witness ==
    \E g \in Guilds :
        /\ cur.ret[g].chan = "a"
        /\ messages[g].chan = "b"
        /\ messages[g].id > cur.ret[g].id
        /\ TestLinkReply(keys, messages, g).chan = "b"
        /\ \E o \in Guilds : messages[o] = NoMsg

\* The records at newest-first positions lo..hi-1 (0 is the newest), as
\* lines, top to bottom.
Newest(h, lo, hi) ==
    [i \in 1..(IF hi > lo THEN hi - lo ELSE 0) |-> Line(h[Len(h) - (lo + i - 1)])]

\* The least number of pages of n records that hold len records.
Ceil(len, n) == CHOOSE k \in 0..len : k * n >= len /\ (k = 0 \/ (k - 1) * n < len)

\* C13: for a page number p >= 0, get_page(p) lists exactly the records at
\* newest-first positions p*n .. min(p*n + n, L) - 1, the newest at the top.
C13_PageIsNewestFirstWindow ==
    (view # NoView /\ view.page >= 0)
        => view.lines = Newest(history, view.page * num_per_page,
                               Min(view.page * num_per_page + num_per_page,
                                   Len(history)))

\* C13: a last page that is not the first and is only partly filled.
C13_Witness ==
    /\ view # NoView
    /\ view.page >= 1
    /\ Len(view.lines) >= 1
    /\ Len(view.lines) < num_per_page

\* C14: the pages 0 .. get_total_pages()-1, joined in that order, are the
\* whole history newest first, each record once.
C14_PagesCoverHistory ==
    walk.upto = get_total_pages(history, num_per_page) - 1
        => walk.lines = Newest(history, 0, Len(history))

\* C14: three or more pages have been joined, the last one partly filled.
C14_Witness ==
    /\ walk.upto = get_total_pages(history, num_per_page) - 1
    /\ walk.upto >= 2
    /\ Len(history) % num_per_page # 0

\* C15: the total in the footer is the ceiling of L / n: 0 for an empty
\* history and never negative.
C15_TotalPagesIsCeiling ==
    view # NoView
        => /\ view.footer[2] = Ceil(Len(history), num_per_page)
           /\ view.footer[2] >= 0
           /\ (history = <<>> => view.footer[2] = 0)

\* C15: a total of two or more pages with a remainder.
C15_Witness ==
    /\ view # NoView
    /\ view.footer[2] >= 2
    /\ Len(history) % num_per_page # 0

\* C16: get_page raises for no page number: past the last page (any page of
\* an empty history included) the listing is empty, for a negative page it is
\* a listing of records of the history, and the history is left as it was.
C16_GetPageNeverErrors ==
    [][PagerNext
       => /\ view'.err = "none"
          /\ view'.page >= get_total_pages(history, num_per_page)
                => view'.lines = <<>>
          /\ view'.page < 0
                => Range(view'.lines) \subseteq Range(Newest(history, 0, Len(history)))
          /\ history' = history
          /\ num_per_page' = num_per_page]_vars

\* C16: a page past the last of a history that holds records was asked for.
C16_Witness ==
    /\ view # NoView
    /\ Len(history) > 0
    /\ view.page >= get_total_pages(history, num_per_page)
    /\ view.err = "none"

\* C17: an edit that is slow or never returns does not block the poller:
\* whenever send_announcement is suspended on the edit of a destination, the
\* poller gets past it, so that the remaining destinations are edited and
\* the timer fires again.
C17_HangingEditDoesNotBlock == (loop = "edit") ~> (loop # "edit")

\* C18: the history changes only on the step that ends a run of
\* send_announcement which saw a transition, and then by the appending of one
\* record and at most the loss of the oldest: the records kept are neither
\* modified nor reordered.  The steps of link_channel (resolved or not), of
\* start_monitor and of stop_monitor leave it as it is, and test_link leaves
\* the registry as it is too.
C18_OnlyTickAppends ==
    [][/\ history' # history
          => /\ Ends /\ cur'.end = "ok" /\ cur'.trans
             /\ Len(history') > 0
             /\ Last(history') = <<Now, cur'.obs>>
             /\ \E k \in 0..1 :
                  SubSeq(history', 1, Len(history') - 1)
                      = SubSeq(history, 1 + k, Len(history))
       /\ (lnk' # lnk \/ StartMonitor \/ StopMonitor) => history' = history
       /\ (\E g \in Guilds : TestLink(g))
          => (history' = history /\ messages' = messages /\ keys' = keys)]_vars

\* C18: a full history has lost its oldest record to a new one while a
\* destination is linked and the poller has been told to stop.
C18_Witness ==
    /\ Len(appended) > max_history_len
    /\ Len(history) >= 2
    /\ keys # <<>>
    /\ stop_next

\* C19: any two adjacent records of the history have different states.
C19_HistoryAlternates ==
    \A i \in 1..(Len(history) - 1) : history[i][2] # history[i + 1][2]

\* C19: a history of two records or more that has lost a record to the cap
\* and whose newest record comes from a fetch that failed.
C19_Witness ==
    /\ Len(history) >= 2
    /\ Len(appended) > Len(history)
    /\ cur.fetch = "exception"
    /\ cur.appended

\* C20: a link_channel that stores its message while send_announcement is
\* suspended on an edit neither breaks the run nor is lost: the run does not
\* end with the RuntimeError of the dict iterator, and when it ends the entry
\* of each guild so linked is the message that link sent.
C20_LinkDuringTickIsSafe ==
    [][(Ends /\ cur'.linked # {})
       => /\ cur'.end # "RuntimeError"
          /\ \A l \in cur'.linked : messages'[l[1]].id = l[2]]_vars

====
